---- MODULE Spec2Model ----
(***************************************************************************)
(* DICOM series viewer: find_t1_series, load_dicom_series,                 *)
(* MRIVisualization (param.Parameterized with a matplotlib view) and the   *)
(* Flask route /visualize.                                                 *)
(*                                                                         *)
(* Strings are sequences of one-character strings, so that lower(),        *)
(* endswith() and `in` are computed rather than assumed.  A voxel of the   *)
(* normalised volume is the exact quotient num/den kept as a record;       *)
(* den = 0 stands for the NaN that numpy's float 0/0 yields.               *)
(***************************************************************************)
EXTENDS Integers, Sequences, FiniteSets, TLC

VARIABLES
    walk,      \* find_t1_series: the files os.walk yields, in visiting order
    pos,       \* find_t1_series: index of the next file of the walk
    fpc,       \* find_t1_series: "walking" | "done" | "idle"
    found,     \* find_t1_series: the returned root (NoRoot is None)
    warned,    \* find_t1_series: walk indices logged as invalid DICOM files
    listing,   \* os.listdir(dicom_directory), in the order listdir returns it
    loaded,    \* load_dicom_series: its outcome once it has been called
    sess,      \* per session: the MRIVisualization and the pane it shows
    figs       \* matplotlib.pyplot's figure registry, oldest first

vars == <<walk, pos, fpc, found, warned, listing, loaded, sess, figs>>

\* ------------------------------------------------------------------ bounds
MaxFiles == 2       \* files in the directory handed to load_dicom_series
MaxDim == 2         \* Rows and Columns of a file range over 1..MaxDim
MaxWalk == 3        \* files visited by os.walk
MaxSessions == 2    \* concurrent /visualize sessions

\* ----------------------------------------------------------------- strings
Lower(c) ==
    CASE c = "D" -> "d"
      [] c = "C" -> "c"
      [] c = "M" -> "m"
      [] c = "T" -> "t"
      [] c = "X" -> "x"
      [] OTHER -> c

LowerStr(s) == [i \in DOMAIN s |-> Lower(s[i])]

EndsWith(s, suffix) ==
    /\ Len(s) >= Len(suffix)
    /\ SubSeq(s, Len(s) - Len(suffix) + 1, Len(s)) = suffix

Contains(s, sub) ==
    \E i \in 1..(Len(s) - Len(sub) + 1) : SubSeq(s, i, i + Len(sub) - 1) = sub

DcmSuffix == <<".", "d", "c", "m">>

\* filename.lower().endswith(".dcm")
IsDcmNameExact(name) == EndsWith(name, DcmSuffix)
IsDcmName(name) == EndsWith(LowerStr(name), DcmSuffix)

\* File names of one directory are distinct: the stem is the position.
Stems == <<"a", "b", "e", "f", "g", "h">>
Exts == { <<".", "d", "c", "m">>, <<".", "D", "C", "M">>, <<".", "t", "x", "t">> }
DcmExts == { e \in Exts : IsDcmNameExact(LowerStr(e)) }
OtherExts == Exts \ DcmExts

\* ------------------------------------------------- load_dicom_series input
\* One entry of the directory.  A name without the extension is never read.
\* A dataset without InstanceNumber stops the sort before any other
\* attribute is looked at.  The upper-case extension and the missing
\* PixelSpacing / SliceThickness are varied one at a time.
OtherFiles == [ext : OtherExts, hasInst : {FALSE}, inst : {0},
               rows : {1}, cols : {1}, gain : {0}, hasSpacing : {FALSE}]
NoInstFiles == [ext : {DcmSuffix}, hasInst : {FALSE}, inst : {0},
                rows : {1}, cols : {1}, gain : {0}, hasSpacing : {TRUE}]
SliceFiles ==
    { f \in [ext : DcmExts, hasInst : {TRUE}, inst : {1, 2},
              rows : 1..MaxDim, cols : 1..MaxDim, gain : {0, 1},
              hasSpacing : BOOLEAN] : f.hasSpacing \/ f.ext = DcmSuffix }
FileKinds == OtherFiles \cup NoInstFiles \cup SliceFiles

Named(kinds) == [i \in DOMAIN kinds |->
    [name |-> <<Stems[i]>> \o kinds[i].ext, ds |-> kinds[i]]]

\* The directories of at most MaxFiles entries drawn from `kinds`.
IsListing(dir, kinds) ==
    \E n \in 0..MaxFiles : \E k \in [1..n -> kinds] : dir = Named(k)

\* ds.pixel_array of a file: Rows x Columns, zero everywhere (gain 0) or the
\* row-major ramp 1, 2, ... (gain 1).
PixelArray(ds) ==
    [r \in 1..ds.rows |-> [c \in 1..ds.cols |-> ds.gain * (ds.cols * (r - 1) + c)]]

NoRoot == 0

\* ------------------------------------------------------- MRIVisualization
Axes == {"x", "y", "z"}
ClassBounds == <<0, 100>>       \* slice_index = param.Integer(0, bounds=(0, 100))

Blank == <<>>                   \* a figure nothing was drawn on
NoPane == [shown |-> FALSE, image |-> Blank]
Leaked == 0                     \* owner of a figure no caller will close

\* status: "none" (no request yet), "building" (inside
\* create_mri_visualization), "live" (panel served), "failed" (it raised).
\* pc is the position inside view(); shown is the (slice_index, view_axis)
\* of the session's last completed imshow.
NoSession ==
    [status |-> "none", volume |-> <<>>, shape |-> <<0, 0, 0>>,
     slice_index |-> 0, view_axis |-> "z", bounds |-> ClassBounds,
     pc |-> "idle", shown |-> <<0, "z">>, display |-> NoPane,
     error |-> "none", logged |-> FALSE]

\* ------------------------------------------------------- load_dicom_series
\* dicom_files.sort(key=int(InstanceNumber)): list.sort is stable, so files
\* with equal keys keep their listdir order.
RECURSIVE InsertByInstance(_, _)
InsertByInstance(f, sorted) ==
    IF sorted = <<>> \/ sorted[Len(sorted)].ds.inst <= f.ds.inst
    THEN Append(sorted, f)
    ELSE Append(InsertByInstance(f, SubSeq(sorted, 1, Len(sorted) - 1)),
                sorted[Len(sorted)])

\* The listdir order, as it is without the sort.
Unsorted(files) == files

RECURSIVE SortByInstance(_)
SortByInstance(files) ==
    IF files = <<>> THEN <<>>
    ELSE InsertByInstance(files[Len(files)],
                          SortByInstance(SubSeq(files, 1, Len(files) - 1)))

\* volume[:, :, i] = pixel_array: numpy broadcasts an axis of length 1 and
\* raises ValueError for any other difference of shape.
Broadcastable(ds, R, C) == ds.rows \in {R, 1} /\ ds.cols \in {C, 1}

Plane(ds, R, C) ==
    [r \in 1..R |-> [c \in 1..C |->
        PixelArray(ds)[IF ds.rows = 1 THEN 1 ELSE r][IF ds.cols = 1 THEN 1 ELSE c]]]

Stack(sorted, R, C) ==
    [r \in 1..R |-> [c \in 1..C |-> [k \in 1..Len(sorted) |->
        Plane(sorted[k].ds, R, C)[r][c]]]]

Voxels(vol) ==
    { vol[r][c][k] : r \in DOMAIN vol, c \in DOMAIN vol[1], k \in DOMAIN vol[1][1] }

SetMin(S) == CHOOSE x \in S : \A y \in S : x <= y
SetMax(S) == CHOOSE x \in S : \A y \in S : x >= y

\* volume = (volume - volume.min()) / (volume.max() - volume.min())
Normalize(vol) ==
    LET lo == SetMin(Voxels(vol))
        hi == SetMax(Voxels(vol))
    IN  [r \in DOMAIN vol |-> [c \in DOMAIN vol[r] |-> [k \in DOMAIN vol[r][c] |->
            [num |-> vol[r][c][k] - lo, den |-> hi - lo]]]]

Outcome(error, shape, stacked, volume) ==
    [error |-> error, shape |-> shape, stacked |-> stacked, volume |-> volume]
Raised(error) == Outcome(error, <<0, 0, 0>>, <<>>, <<>>)
NotCalled == Raised("not called")

LoadDicomSeries(directory) ==
    LET IsDcm(f) == IsDcmName(f.name)
        dicom_files == SelectSeq(directory, IsDcm)
    IN  IF \E i \in DOMAIN dicom_files : ~dicom_files[i].ds.hasInst
        THEN Raised("AttributeError")
        ELSE IF dicom_files = <<>> THEN Raised("IndexError")
        ELSE
          LET sorted == SortByInstance(dicom_files)
              R == sorted[1].ds.rows
              C == sorted[1].ds.cols
              N == Len(sorted)
              stacked == Stack(sorted, R, C)
          IN  IF \E i \in 1..N : ~Broadcastable(sorted[i].ds, R, C)
              THEN Raised("ValueError")
              ELSE IF ~sorted[N].ds.hasSpacing THEN Raised("AttributeError")
              ELSE Outcome("none", <<R, C, N>>, stacked, Normalize(stacked))

\* A direct call of load_dicom_series on the directory.
Load ==
    /\ loaded = NotCalled
    /\ loaded' = LoadDicomSeries(listing)
    /\ UNCHANGED <<walk, pos, fpc, found, warned, listing, sess, figs>>

InitLoad ==
    /\ IsListing(listing, FileKinds)
    /\ loaded = NotCalled
    /\ walk = <<>> /\ pos = 1 /\ fpc = "idle" /\ found = NoRoot /\ warned = {}
    /\ sess = [s \in 1..MaxSessions |-> NoSession]
    /\ figs = <<>>

NextLoad == Load

SpecLoad == InitLoad /\ [][NextLoad]_vars

\* The '.dcm' test of the claims, spelled out character by character.
ClaimIsDcm(name) ==
    /\ Len(name) >= 4
    /\ name[Len(name) - 3] = "."
    /\ name[Len(name) - 2] \in {"d", "D"}
    /\ name[Len(name) - 1] \in {"c", "C"}
    /\ name[Len(name)] \in {"m", "M"}

\* ---------------------------------------------------------- find_t1_series
T1 == <<"t", "1">>

\* Files os.walk can yield.  dcmread raises InvalidDicomError on a file that
\* is not DICOM, so such a file has no dataset at all.
Descriptions == { <<"X", "T", "1">>, <<"t", "1", "w">>, <<"T", "2">> }
NotDicom == [ext : Exts, valid : {FALSE}, hasDesc : {FALSE}, desc : {<<>>}]
Undescribed == [ext : DcmExts, valid : {TRUE}, hasDesc : {FALSE}, desc : {<<>>}]
Described == [ext : DcmExts, valid : {TRUE}, hasDesc : {TRUE}, desc : Descriptions]
Misnamed == [ext : OtherExts, valid : {TRUE}, hasDesc : {TRUE}, desc : {<<"T", "1">>}]
WalkKinds == NotDicom \cup Undescribed \cup Described \cup Misnamed

\* os.walk visits a directory's files together, top-down: the root of each
\* file is that of the file before it or the next directory.
RECURSIVE RootOf(_, _)
RootOf(steps, i) == IF i = 1 THEN 1 ELSE RootOf(steps, i - 1) + steps[i]

IsWalk(w) ==
    \E n \in 0..MaxWalk : \E k \in [1..n -> WalkKinds] : \E steps \in [1..n -> {0, 1}] :
        /\ n > 0 => steps[1] = 0
        /\ w = [i \in 1..n |-> [root |-> RootOf(steps, i),
                                 name |-> <<Stems[i]>> \o k[i].ext,
                                 ds |-> k[i]]]

\* dicom_data.get('SeriesDescription', ''), as it is without .lower()
RawDescription(ds) == IF ds.hasDesc THEN ds.desc ELSE <<>>

\* dicom_data.get('SeriesDescription', '').lower()
SeriesDescription(ds) == LowerStr(IF ds.hasDesc THEN ds.desc ELSE <<>>)

Visiting == fpc = "walking" /\ pos <= Len(walk)

\* line 21: the name does not end in '.dcm'
SkipName ==
    /\ Visiting
    /\ ~IsDcmName(walk[pos].name)
    /\ pos' = pos + 1
    /\ UNCHANGED <<walk, fpc, found, warned, listing, loaded, sess, figs>>

\* An InvalidDicomError that nothing catches ends the call.
ReadInvalidRaises ==
    /\ Visiting
    /\ IsDcmName(walk[pos].name)
    /\ ~walk[pos].ds.valid
    /\ fpc' = "raised"
    /\ UNCHANGED <<walk, pos, found, warned, listing, loaded, sess, figs>>

\* lines 29-30: InvalidDicomError is caught, a warning names the file
ReadInvalid ==
    /\ Visiting
    /\ IsDcmName(walk[pos].name)
    /\ ~walk[pos].ds.valid
    /\ warned' = warned \cup {pos}
    /\ pos' = pos + 1
    /\ UNCHANGED <<walk, fpc, found, listing, loaded, sess, figs>>

\* lines 24-26: a readable file whose description has no 't1'
ReadOther ==
    /\ Visiting
    /\ IsDcmName(walk[pos].name)
    /\ walk[pos].ds.valid
    /\ ~Contains(SeriesDescription(walk[pos].ds), T1)
    /\ pos' = pos + 1
    /\ UNCHANGED <<walk, fpc, found, warned, listing, loaded, sess, figs>>

\* lines 26-28: return root
ReadT1 ==
    /\ Visiting
    /\ IsDcmName(walk[pos].name)
    /\ walk[pos].ds.valid
    /\ Contains(SeriesDescription(walk[pos].ds), T1)
    /\ found' = walk[pos].root
    /\ fpc' = "done"
    /\ UNCHANGED <<walk, pos, warned, listing, loaded, sess, figs>>

\* lines 31-32: the walk is exhausted, return None
WalkEnd ==
    /\ fpc = "walking"
    /\ pos > Len(walk)
    /\ found' = NoRoot
    /\ fpc' = "done"
    /\ UNCHANGED <<walk, pos, warned, listing, loaded, sess, figs>>

InitFind ==
    /\ IsWalk(walk)
    /\ pos = 1 /\ fpc = "walking" /\ found = NoRoot /\ warned = {}
    /\ listing = <<>> /\ loaded = NotCalled
    /\ sess = [s \in 1..MaxSessions |-> NoSession]
    /\ figs = <<>>

NextFind == SkipName \/ ReadInvalid \/ ReadOther \/ ReadT1 \/ WalkEnd

SpecFind == InitFind /\ [][NextFind]_vars

\* ------------------------------------------------- claims on SpecFind
ClaimHasT1(desc) ==
    \E i \in 1..(Len(desc) - 1) : desc[i] \in {"t", "T"} /\ desc[i + 1] = "1"

\* The root of the first '.dcm' file of w with a T1 description, if any.
FirstT1Root(w) ==
    LET hits == { k \in DOMAIN w : /\ ClaimIsDcm(w[k].name)
                                   /\ w[k].ds.hasDesc
                                   /\ ClaimHasT1(w[k].ds.desc) }
    IN  IF hits = {} THEN NoRoot
        ELSE w[CHOOSE k \in hits : \A j \in hits : k <= j].root

\* C4: find_t1_series returns the directory of the first '.dcm' file, in
\* visiting order, whose SeriesDescription contains 't1' in any letter case,
\* and None exactly when there is no such file; a file without
\* SeriesDescription or without the '.dcm' extension never decides it.
C4_FirstT1Directory ==
    fpc = "done" =>
        /\ found = FirstT1Root(walk)
        /\ found = NoRoot <=>
              ~\E k \in DOMAIN walk : /\ ClaimIsDcm(walk[k].name)
                                      /\ walk[k].ds.hasDesc
                                      /\ ClaimHasT1(walk[k].ds.desc)

\* The second directory is returned for an upper-case description, after a
\* T1 dataset under another extension in the first directory.
C4_Witness ==
    /\ fpc = "done"
    /\ found = 2
    /\ walk[pos].ds.desc = <<"X", "T", "1">>
    /\ \E k \in 1..(pos - 1) : walk[k].ds \in Misnamed /\ walk[k].root = 1

\* C9: an invalid DICOM file is skipped with a warning and the search goes
\* on: the call never ends in an exception, every invalid '.dcm' file it has
\* passed is logged, and the result is that of the walk without the invalid
\* files.
C9_InvalidSkipped ==
    /\ fpc # "raised"
    /\ \A k \in 1..(pos - 1) :
          (ClaimIsDcm(walk[k].name) /\ ~walk[k].ds.valid) => k \in warned
    /\ fpc = "done" =>
          LET IsValid(f) == f.ds.valid
          IN  found = FirstT1Root(SelectSeq(walk, IsValid))

\* A T1 directory is returned after an invalid '.dcm' file was passed.
C9_Witness ==
    /\ fpc = "done"
    /\ found # NoRoot
    /\ warned # {}
    /\ \E k \in warned : k < pos /\ walk[k].root < found

\* ------------------------------------------------ MRIVisualization.view
\* The bounds of the class, as they are without line 63.
KeepClassBounds(shape) == ClassBounds

\* self.param.slice_index.bounds = (0, self.volume.shape[2] - 1)
InstanceBounds(shape) == <<0, shape[3] - 1>>

\* numpy raises IndexError for an index at or past the extent of the axis.
Extent(shape, axis) ==
    CASE axis = "x" -> shape[1]
      [] axis = "y" -> shape[2]
      [] OTHER -> shape[3]

\* volume[i, :, :], volume[:, i, :], volume[:, :, i]
SliceData(volume, i, axis) ==
    CASE axis = "x" -> volume[i + 1]
      [] axis = "y" -> [r \in DOMAIN volume |-> volume[r][i + 1]]
      [] OTHER -> [r \in DOMAIN volume |->
                      [c \in DOMAIN volume[r] |-> volume[r][c][i + 1]]]

\* pyplot's registry keeps its figures in creation order; the last one is
\* the current figure.  Figures that are never closed are all blank and
\* stay for ever, so neighbouring ones are kept as one entry.
RECURSIVE Collapse(_)
Collapse(fs) ==
    IF Len(fs) < 2 THEN fs
    ELSE IF fs[1].owner = Leaked /\ fs[2].owner = Leaked
         THEN Collapse(Tail(fs))
         ELSE <<fs[1]>> \o Collapse(Tail(fs))

\* fig, ax = plt.subplots(...): a new blank figure becomes current
Subplots(s) == Append(figs, [owner |-> s, image |-> Blank])

\* ax.imshow(slice_data) draws on the caller's own axes
Imshow(s, image) ==
    [i \in DOMAIN figs |-> IF figs[i].owner = s
                           THEN [figs[i] EXCEPT !.image = image] ELSE figs[i]]

\* an exception leaves view() before plt.close(fig)
Abandon(s) ==
    Collapse([i \in DOMAIN figs |-> IF figs[i].owner = s
                                    THEN [figs[i] EXCEPT !.owner = Leaked]
                                    ELSE figs[i]])

\* plt.savefig(buf) writes pyplot's current figure
CurrentFigure == figs[Len(figs)]

\* plt.close(fig)
Close(s) ==
    LET NotMine(f) == f.owner # s
    IN  Collapse(SelectSeq(figs, NotMine))

\* GET /visualize: create_mri_visualization(dicom_directory) up to the
\* plt.subplots of the first view(), which pn.Column evaluates in panel().
Visualize(s) ==
    /\ sess[s].status = "none"
    /\ LET r == LoadDicomSeries(listing)
       IN  IF r.error # "none"
           THEN /\ sess' = [sess EXCEPT ![s] =
                                [NoSession EXCEPT !.status = "failed",
                                                  !.error = r.error,
                                                  !.logged = TRUE]]
                /\ figs' = figs
           ELSE /\ sess' = [sess EXCEPT ![s] =
                                [NoSession EXCEPT !.status = "building",
                                                  !.volume = r.volume,
                                                  !.shape = r.shape,
                                                  !.bounds = InstanceBounds(r.shape),
                                                  !.pc = "fig"]]
                /\ figs' = Subplots(s)
    /\ UNCHANGED <<walk, pos, fpc, found, warned, listing, loaded>>

\* view(), lines 69-76: select the slice and draw it
ViewImshow(s) ==
    /\ sess[s].pc = "fig"
    /\ LET v == sess[s]
       IN  IF v.slice_index < Extent(v.shape, v.view_axis)
           THEN /\ figs' = Imshow(s, SliceData(v.volume, v.slice_index, v.view_axis))
                /\ sess' = [sess EXCEPT ![s].pc = "drawn",
                                        ![s].shown = <<v.slice_index, v.view_axis>>]
           ELSE /\ figs' = Abandon(s)
                /\ sess' = [sess EXCEPT
                       ![s].pc = "idle",
                       ![s].error = "IndexError",
                       ![s].status = IF v.status = "building" THEN "failed" ELSE @,
                       ![s].logged = IF v.status = "building" THEN TRUE ELSE @]
    /\ UNCHANGED <<walk, pos, fpc, found, warned, listing, loaded>>

\* view(), lines 78-85: tight_layout, savefig, close, return the PNG pane
ViewSave(s) ==
    /\ sess[s].pc = "drawn"
    /\ sess' = [sess EXCEPT
           ![s].pc = "idle",
           ![s].display = [shown |-> TRUE, image |-> CurrentFigure.image],
           ![s].status = "live"]
    /\ figs' = Close(s)
    /\ UNCHANGED <<walk, pos, fpc, found, warned, listing, loaded>>

\* The values a client may try to assign.
SliceInputs == -1..MaxFiles
AxisInputs == Axes \cup {"w"}

\* slice_index = v: param.Integer validates against the instance's bounds;
\* a changed value calls view() through @param.depends.
SetSliceIndex(s, v) ==
    /\ sess[s].status = "live"
    /\ sess[s].pc = "idle"
    /\ IF v < sess[s].bounds[1] \/ v > sess[s].bounds[2]
       THEN /\ sess' = [sess EXCEPT ![s].error = "ValueError"]
            /\ figs' = figs
       ELSE IF v = sess[s].slice_index
       THEN /\ sess' = [sess EXCEPT ![s].error = "none"]
            /\ figs' = figs
       ELSE /\ sess' = [sess EXCEPT ![s].slice_index = v,
                                    ![s].error = "none",
                                    ![s].pc = "fig"]
            /\ figs' = Subplots(s)
    /\ UNCHANGED <<walk, pos, fpc, found, warned, listing, loaded>>

\* view_axis = a: param.ObjectSelector accepts only its objects.
SetViewAxis(s, a) ==
    /\ sess[s].status = "live"
    /\ sess[s].pc = "idle"
    /\ IF a \notin Axes
       THEN /\ sess' = [sess EXCEPT ![s].error = "ValueError"]
            /\ figs' = figs
       ELSE IF a = sess[s].view_axis
       THEN /\ sess' = [sess EXCEPT ![s].error = "none"]
            /\ figs' = figs
       ELSE /\ sess' = [sess EXCEPT ![s].view_axis = a,
                                    ![s].error = "none",
                                    ![s].pc = "fig"]
            /\ figs' = Subplots(s)
    /\ UNCHANGED <<walk, pos, fpc, found, warned, listing, loaded>>

\* The series under dicom/SER00002: N slices of one shape.
SeriesKinds(R, C) ==
    { f \in SliceFiles : /\ f.rows = R /\ f.cols = C /\ f.inst = 1
                         /\ f.hasSpacing /\ f.ext = DcmSuffix }

Init ==
    /\ \E R, C \in 1..MaxDim : IsListing(listing, SeriesKinds(R, C))
    /\ sess = [s \in 1..MaxSessions |-> NoSession]
    /\ figs = <<>>
    /\ loaded = NotCalled
    /\ walk = <<>> /\ pos = 1 /\ fpc = "idle" /\ found = NoRoot /\ warned = {}

Handle(s) ==
    \/ Visualize(s)
    \/ ViewImshow(s)
    \/ ViewSave(s)
    \/ \E v \in SliceInputs : SetSliceIndex(s, v)
    \/ \E a \in AxisInputs : SetViewAxis(s, a)

\* Requests run on the threads of Flask's development server.
Next == \E s \in 1..MaxSessions : Handle(s)

Spec == Init /\ [][Next]_vars

\* One session alone: its handlers run one after the other.
NextOne == Handle(1)

SpecOne == Init /\ [][NextOne]_vars

\* create_mri_visualization over any directory.
NextCreate == Visualize(1) \/ ViewImshow(1) \/ ViewSave(1)

SpecCreate == InitLoad /\ [][NextCreate]_vars

\* ------------------------------------------------- claims on SpecLoad
ClaimDcm == { i \in DOMAIN listing : ClaimIsDcm(listing[i].name) }

ClaimUniform ==
    \A i, j \in ClaimDcm :
        /\ listing[i].ds.rows = listing[j].ds.rows
        /\ listing[i].ds.cols = listing[j].ds.cols

\* C2: for a directory whose '.dcm' files (any letter case) share Rows and
\* Columns, the volume load_dicom_series stacks has shape (Rows, Columns, N),
\* N the number of '.dcm' files, and its planes are the pixel arrays of these
\* files, each once, in nondecreasing InstanceNumber order, whatever the
\* listdir order; other files contribute no plane.
C2_ScanSortStack ==
    (loaded.error = "none" /\ ClaimUniform) =>
        LET N == Cardinality(ClaimDcm)
        IN  /\ N >= 1
            /\ \A i \in ClaimDcm :
                   loaded.shape = <<listing[i].ds.rows, listing[i].ds.cols, N>>
            /\ \E order \in [1..N -> ClaimDcm] :
                   /\ \A a, b \in 1..N : a < b =>
                          /\ order[a] # order[b]
                          /\ listing[order[a]].ds.inst <= listing[order[b]].ds.inst
                   /\ \A k \in 1..N :
                        \A r \in 1..loaded.shape[1], c \in 1..loaded.shape[2] :
                          loaded.stacked[r][c][k]
                              = PixelArray(listing[order[k]].ds)[r][c]

\* A returned volume of two planes that differ, from a directory listed in
\* descending InstanceNumber order whose first name is upper-case.
C2_Witness ==
    /\ loaded.error = "none"
    /\ ClaimUniform
    /\ Len(listing) = 2
    /\ loaded.shape[3] = 2
    /\ listing[1].ds.inst > listing[2].ds.inst
    /\ ~IsDcmNameExact(listing[1].name)
    /\ loaded.stacked[1][1][1] # loaded.stacked[1][1][2]

\* C7: every value of the returned volume lies in [0, 1], the smallest is 0,
\* the largest is 1, and a voxel brighter than another before normalisation
\* is brighter after it.
C7_Normalised ==
    loaded.error = "none" =>
        LET vol == loaded.volume
            at == { <<r, c, k>> : r \in 1..loaded.shape[1],
                                  c \in 1..loaded.shape[2],
                                  k \in 1..loaded.shape[3] }
            v(p) == vol[p[1]][p[2]][p[3]]
            raw(p) == loaded.stacked[p[1]][p[2]][p[3]]
        IN  /\ \A p \in at : v(p).den > 0 /\ 0 <= v(p).num /\ v(p).num <= v(p).den
            /\ \E p \in at : v(p).num = 0
            /\ \E p \in at : v(p).num = v(p).den
            /\ \A p, q \in at :
                   raw(p) < raw(q) => v(p).num * v(q).den < v(q).num * v(p).den

\* ------------------------------------------------- claims on SpecCreate
\* The first '.dcm' file after the sort: the smallest InstanceNumber, the
\* earliest listed among equals.
ClaimFirstSorted ==
    CHOOSE i \in ClaimDcm :
        \A j \in ClaimDcm :
            \/ listing[i].ds.inst < listing[j].ds.inst
            \/ listing[i].ds.inst = listing[j].ds.inst /\ i <= j

ClaimLoadFails ==
    \/ ClaimDcm = {}
    \/ \E i \in ClaimDcm : ~listing[i].ds.hasInst
    \/ \E i \in ClaimDcm :
          \/ listing[i].ds.rows # listing[ClaimFirstSorted].ds.rows
          \/ listing[i].ds.cols # listing[ClaimFirstSorted].ds.cols

\* C8: create_mri_visualization returns a complete panel or fails: with no
\* '.dcm' file, a file without InstanceNumber, or a pixel array that does not
\* match the Rows x Columns of the first sorted file, the error is logged and
\* raised and no panel is returned.
C8_FailsCleanly ==
    /\ (sess[1].status \in {"live", "failed"} /\ ClaimLoadFails) =>
           /\ sess[1].status = "failed"
           /\ sess[1].logged
    /\ sess[1].status = "failed" => ~sess[1].display.shown
    /\ sess[1].status = "live" => sess[1].display.shown /\ sess[1].pc = "idle"

\* ------------------------------------------------- claims on SpecOne, Spec
\* The slice the claims name for (i, axis): volume[i,:,:], volume[:,i,:],
\* volume[:,:,i], with i counted from 0.
ClaimSlice(v, i, axis) ==
    LET R == v.shape[1]
        C == v.shape[2]
        N == v.shape[3]
    IN  IF axis = "x" THEN [c \in 1..C |-> [k \in 1..N |-> v.volume[i + 1][c][k]]]
        ELSE IF axis = "y" THEN [r \in 1..R |-> [k \in 1..N |-> v.volume[r][i + 1][k]]]
        ELSE [r \in 1..R |-> [c \in 1..C |-> v.volume[r][c][i + 1]]]

ClaimExtent(v, axis) ==
    IF axis = "x" THEN v.shape[1] ELSE IF axis = "y" THEN v.shape[2] ELSE v.shape[3]

\* C1: for every view_axis and every slice_index the slider allows, view()
\* selects an existing slice: the index is below the extent of the volume
\* along that axis, and view() never fails with an index out of range.
C1_SelectableSliceExists ==
    \A s \in 1..MaxSessions :
        sess[s].status = "live" =>
            /\ sess[s].error # "IndexError"
            /\ \A axis \in Axes : \A i \in sess[s].bounds[1]..sess[s].bounds[2] :
                   i < ClaimExtent(sess[s], axis)

\* C3: once a change has been handled, the image displayed is the slice for
\* the current slice_index and view_axis, never that of an earlier pair.
C3_DisplayCurrent ==
    \A s \in 1..MaxSessions :
        (sess[s].status = "live" /\ sess[s].pc = "idle") =>
            /\ sess[s].display.shown
            /\ sess[s].slice_index < ClaimExtent(sess[s], sess[s].view_axis)
            /\ sess[s].display.image
                   = ClaimSlice(sess[s], sess[s].slice_index, sess[s].view_axis)

\* C5: sessions share no state: whatever the other sessions do, the image a
\* session displays is the slice its own view() drew last, from its own
\* volume and parameters.
C5_SessionsIsolated ==
    \A s \in 1..MaxSessions :
        (sess[s].status = "live" /\ sess[s].pc = "idle") =>
            sess[s].display.image
                = ClaimSlice(sess[s], sess[s].shown[1], sess[s].shown[2])

ClaimParams(v) == <<v.slice_index, v.view_axis>>

====
